---------------------------- MODULE Spec2Model ----------------------------
(***************************************************************************)
(* A model of the model-earth dashboard (src/src/App.jsx and               *)
(* src/src/utils): the App's location selection, the Dashboard's fetch     *)
(* cycle (useEffect -> fetchNASAData -> then / catch) and the              *)
(* normalization its then-callback performs on the two payloads.           *)
(*                                                                         *)
(* Numbers are fixed-point integers in hundredths (20.5 is 2050, the      *)
(* sentinel -999 is -99900); every sample the model draws has a binary64   *)
(* value whose toFixed(1) is the decimal rounding computed here.  Strings  *)
(* that the code slices (date keys, ISO timestamps) are sequences of       *)
(* one-character strings.                                                  *)
(***************************************************************************)
EXTENDS Integers, Sequences, FiniteSets, TLC

VARIABLES
    parameters,        \* body the primary source (Request A) answers with
    radiations,        \* result of Request B: a body, or null
    utcOffset,         \* host timezone: minutes east of UTC
    answers,           \* per location: the two results its requests get
    selectedLocation,  \* App: useState(null)
    showDashboard,     \* App: useState(false)
    dragStartY,        \* App: useState(0)
    dragOffset,        \* App: useState(0)
    isDragging,        \* App: useState(false)
    data,              \* Dashboard: useState(null)
    loading,           \* Dashboard: useState(true)
    error,             \* Dashboard: useState(null)
    cycles,            \* fetch cycles whose promise chain has not finished
    deps,              \* Dashboard: the location the fetch effect last ran with
    started,           \* number of times the fetch effect has started a fetch
    settled,           \* the callback that ran last since the effect last ran
    clicks,            \* number of clicks on a location marker so far
    clickLimit,        \* number of clicks a behaviour goes up to
    call,              \* a call of a function of src/utils: name and argument
    returned           \* what that call returned

vars == <<parameters, radiations, utcOffset, answers, selectedLocation,
          showDashboard, dragStartY, dragOffset, isDragging, data, loading,
          error, deps, cycles, started, settled, clicks, clickLimit, call,
          returned>>

(***************************************************************************)
(* Bounds of the model.                                                    *)
(***************************************************************************)
MaxSamples == 2    \* length of the hourly sample array
MaxCycles == 1     \* marker clicks in a behaviour of Spec
MaxClicks == 2     \* marker clicks in a behaviour of the other specifications
DisplayLen == 9    \* length of the strings given to formatDisplayDate
InvocationDays == 12  \* days in each run of days of a call to fetchNASAData

(***************************************************************************)
(* JavaScript values.                                                      *)
(***************************************************************************)
Num(x) == [t |-> "num", v |-> x]
Null == [t |-> "null", v |-> 0]
Undefined == [t |-> "undefined", v |-> 0]
NaN == [t |-> "NaN", v |-> 0]
Str(s) == [t |-> "string", v |-> s]

IsNum(x) == x.t = "num"

\* -999, the primary source's missing-value marker, in hundredths
Sentinel == -99900

\* value !== -999
NotSentinel(x) == ~(IsNum(x) /\ x.v = Sentinel)

\* x || 0
OrZero(x) == IF IsNum(x) /\ x.v # 0 THEN x ELSE Num(0)

(***************************************************************************)
(* Number.prototype.toFixed(1) and parseFloat.  toFixed(1) of the real     *)
(* num/den is the decimal string with one fraction digit nearest to it, a  *)
(* tie taking the larger magnitude; parseFloat reads the string back.      *)
(***************************************************************************)
Abs(a) == IF a < 0 THEN -a ELSE a

toFixed1(num, den) ==
    LET n == (2 * 10 * Abs(num) + den) \div (2 * den)
    IN  [neg |-> num < 0 /\ n > 0, int |-> n \div 10, frac |-> n % 10]

parseFloat(s) ==
    LET m == s.int * 100 + s.frac * 10
    IN  Num(IF s.neg THEN -m ELSE m)

(***************************************************************************)
(* Strings, digits and the calendar.                                       *)
(***************************************************************************)
DigitChar == <<"0", "1", "2", "3", "4", "5", "6", "7", "8", "9">>

DigitVal(c) == CHOOSE k \in 0..9 : DigitChar[k + 1] = c

Pad2(n) == <<DigitChar[((n \div 10) % 10) + 1], DigitChar[(n % 10) + 1]>>

Pad4(n) == Pad2(n \div 100) \o Pad2(n % 100)

\* String.prototype.slice(from, to) with 0 <= from <= to <= length
slice(s, from, to) == SubSeq(s, from + 1, to)

\* String.prototype.startsWith
startsWith(s, prefix) ==
    /\ Len(prefix) <= Len(s)
    /\ SubSeq(s, 1, Len(prefix)) = prefix

RECURSIVE parseInt(_)
parseInt(s) ==
    IF Len(s) = 0 THEN 0
    ELSE 10 * parseInt(SubSeq(s, 1, Len(s) - 1)) + DigitVal(s[Len(s)])

IsLeap(y) == ((y % 4) = 0 /\ (y % 100) # 0) \/ (y % 400) = 0

DaysInMonth(y, m) ==
    IF m = 2 THEN (IF IsLeap(y) THEN 28 + 1 ELSE 28)
    ELSE IF m \in {4, 6, 9, 11} THEN 30 ELSE 31

NextDay(d) ==
    IF d.day < DaysInMonth(d.year, d.month)
    THEN [d EXCEPT !.day = d.day + 1]
    ELSE IF d.month < 12
    THEN [d EXCEPT !.month = d.month + 1, !.day = 1]
    ELSE [d EXCEPT !.year = d.year + 1, !.month = 1, !.day = 1]

PrevDay(d) ==
    IF d.day > 1
    THEN [d EXCEPT !.day = d.day - 1]
    ELSE IF d.month > 1
    THEN [d EXCEPT !.month = d.month - 1,
                   !.day = DaysInMonth(d.year, d.month - 1)]
    ELSE [d EXCEPT !.year = d.year - 1, !.month = 12, !.day = 31]

\* YYYY-MM-DD
IsoDate(d) ==
    Pad4(d.year) \o <<"-">> \o Pad2(d.month) \o <<"-">> \o Pad2(d.day)

\* A Date is kept as its calendar day and minute of the day in the host's
\* zone.  new Date(year, monthIndex, day): midnight of that day
NewDate(year, monthIndex, day) ==
    [year |-> year, month |-> monthIndex + 1, day |-> day, minute |-> 0]

\* date.setDate(date.getDate() - n): n calendar days back in the host's
\* zone, the time of day kept
RECURSIVE setDateBack(_, _)
setDateBack(dateObj, n) ==
    IF n = 0 THEN dateObj ELSE setDateBack(PrevDay(dateObj), n - 1)

\* Date.prototype.toISOString().split('T')[0]: the UTC calendar day of the
\* instant, offset being the zone's minutes east of UTC at that instant; of
\* a local midnight it is the day before in a zone east of UTC
toISODate(dateObj, offset) ==
    LET utcMinute == dateObj.minute - offset
        dayShift == utcMinute \div (24 * 60)
        utcDay == IF dayShift < 0 THEN PrevDay(dateObj)
                  ELSE IF dayShift > 0 THEN NextDay(dateObj) ELSE dateObj
    IN  IsoDate(utcDay)

(***************************************************************************)
(* JSON objects.  A parameter map is the list of its members in the order  *)
(* the body gives them; an absent member is present = FALSE.               *)
(***************************************************************************)
Member(entries) == [present |-> TRUE, entries |-> entries]
Absent == [present |-> FALSE, entries |-> <<>>]

\* obj?.[key]: undefined when the object or the key is absent
Get(obj, key) ==
    IF obj.present /\ \E i \in DOMAIN obj.entries : obj.entries[i][1] = key
    THEN obj.entries[CHOOSE i \in DOMAIN obj.entries :
                         obj.entries[i][1] = key][2]
    ELSE Undefined

\* Object.keys(obj || {}): every date key is a canonical array index
\* (below 2^32 - 1), and such keys are listed in ascending numeric order
\* whatever the order of the members in the body
ObjectKeys(obj) ==
    LET e == IF obj.present THEN obj.entries ELSE <<>>
        idx == DOMAIN e
        rank(i) == Cardinality({j \in idx :
                       parseInt(e[j][1]) < parseInt(e[i][1])}) + 1
    IN  [r \in 1..Len(e) |-> e[CHOOSE i \in idx : rank(i) = r][1]]

\* (mutant of sliceLast: slice(0, n), the first n)
sliceFirst(s, n) == IF Len(s) <= n THEN s ELSE SubSeq(s, 1, n)

\* Array.prototype.slice(-n)
sliceLast(s, n) == IF Len(s) <= n THEN s ELSE SubSeq(s, Len(s) - n + 1, Len(s))

RECURSIVE reduceSum(_)
reduceSum(s) == IF Len(s) = 0 THEN 0 ELSE Head(s).v + reduceSum(Tail(s))

(***************************************************************************)
(* The result of evaluating an expression that may throw.                  *)
(***************************************************************************)
Return(x) == [thrown |-> FALSE, value |-> x, message |-> ""]
Throw(msg) == [thrown |-> TRUE, value |-> Undefined, message |-> msg]

NoValidDataMessage == "No valid data available for this location"
InvalidFormatMessage == "Invalid data format received from API"
FailedToFetchMessage == "Failed to fetch data"

\* value.toFixed(1) on a value that is not a number: the engine's TypeError
ToFixedTypeError(value) ==
    IF value.t = "null"
    THEN "Cannot read properties of null (reading 'toFixed')"
    ELSE "Cannot read properties of undefined (reading 'toFixed')"

MapTypeError == "Cannot read properties of undefined (reading 'map')"

\* (mutant of RoundOrNull: no test for -999)
RoundAlways(value) ==
    IF IsNum(value) THEN Return(parseFloat(toFixed1(value.v, 100)))
    ELSE IF value.t = "NaN" THEN Return(NaN)
    ELSE Throw(ToFixedTypeError(value))

\* value !== -999 ? parseFloat(value.toFixed(1)) : null
RoundOrNull(value) ==
    IF NotSentinel(value)
    THEN IF IsNum(value) THEN Return(parseFloat(toFixed1(value.v, 100)))
         ELSE IF value.t = "NaN" THEN Return(NaN)
         ELSE Throw(ToFixedTypeError(value))
    ELSE Return(Null)

safeValueParameters(params, param, date) ==
    RoundOrNull(Get(params[param], date))

\* formatDateWithoutHyphen: date.toISOString().split('T')[0]
formatDateWithoutHyphen(dateObj, offset) == toISODate(dateObj, offset)

IsNotHyphen(c) == c # "-"

\* formatDateWithHyphen: date.toISOString().split('T')[0].replace(/-/g, '')
formatDateWithHyphen(dateObj, offset) ==
    SelectSeq(toISODate(dateObj, offset), IsNotHyphen)

\* formatDisplayDate: dateStr && dateStr.length === 8 ? DD/MM/YYYY : 'N/A'
formatDisplayDate(dateStr) ==
    IF dateStr.t = "string" /\ Len(dateStr.v) > 0 /\ Len(dateStr.v) = 8
    THEN slice(dateStr.v, 6, 8) \o <<"/">> \o slice(dateStr.v, 4, 6)
             \o <<"/">> \o slice(dateStr.v, 0, 4)
    ELSE <<"N", "/", "A">>

maxRadiation == 1000

\* (mutant of UseFallback: radiations.error is not looked at)
UseFallbackDespiteError(rad, param) ==
    \/ rad.isNull
    \/ ~rad.hasHourly
    \/ ~rad.hourly[param].present

\* !radiations || radiations.error || !radiations.hourly
\*   || !radiations.hourly[param]
UseFallback(rad, param) ==
    \/ rad.isNull
    \/ rad.error
    \/ ~rad.hasHourly
    \/ ~rad.hourly[param].present

\* val !== null && val !== undefined && !isNaN(val)
IsValidValue(val) == IsNum(val)

\* new Date(parseInt(date.slice(0, 4)), parseInt(date.slice(4, 6)) - 1,
\*          parseInt(date.slice(6, 8)))
DateObj(date) ==
    NewDate(parseInt(slice(date, 0, 4)),
            parseInt(slice(date, 4, 6)) - 1,
            parseInt(slice(date, 6, 8)))

\* time.map((time, index) => time.startsWith(targetDate) ? index : -1)
\*     .filter(index => index !== -1)
MatchingIndices(time, targetDate) ==
    LET Matches(index) == startsWith(time[index], targetDate)
    IN  SelectSeq([i \in 1..Len(time) |-> i], Matches)

\* indices.map(index => radiations.hourly[param][index])
ValuesAt(series, indices) ==
    [k \in 1..Len(indices) |->
        IF indices[k] <= Len(series) THEN series[indices[k]] ELSE Undefined]

\* the average of the valid values as a percentage of maxRadiation
Percentage(validValues) ==
    IF Len(validValues) = 0 THEN Return(Null)
    ELSE Return(parseFloat(toFixed1(reduceSum(validValues),
                                    Len(validValues) * maxRadiation)))

DailyAverage(series, indices) ==
    IF Len(indices) = 0 THEN Return(Null)
    ELSE CHOOSE percentage \in
             {Percentage(validValues) :
                 validValues \in
                     {SelectSeq(ValuesAt(series, indices), IsValidValue)}} :
             TRUE

\* (mutant of safeValueRadiations: the fallback value as a percentage of
\* maxRadiation)
safeValueRadiationsScaled(params, rad, offset, param, date, fallback) ==
    IF UseFallback(rad, param)
    THEN IF Get(params[fallback], date) = Num(Sentinel) THEN Return(Null)
         ELSE IF IsNum(Get(params[fallback], date))
         THEN Return(parseFloat(toFixed1(Get(params[fallback], date).v,
                                         maxRadiation)))
         ELSE RoundOrNull(Get(params[fallback], date))
    ELSE IF ~rad.hourly.time.present THEN Throw(MapTypeError)
    ELSE DailyAverage(rad.hourly[param].entries,
                      MatchingIndices(rad.hourly.time.entries,
                          formatDateWithoutHyphen(DateObj(date), offset)))

safeValueRadiations(params, rad, offset, param, date, fallback) ==
    IF UseFallback(rad, param)
    THEN RoundOrNull(Get(params[fallback], date))
    ELSE IF ~rad.hourly.time.present THEN Throw(MapTypeError)
    ELSE CHOOSE percentage \in
             {DailyAverage(rad.hourly[param].entries,
                           MatchingIndices(rad.hourly.time.entries,
                                           targetDate)) :
                 targetDate \in
                     {formatDateWithoutHyphen(DateObj(date), offset)}} : TRUE

(***************************************************************************)
(* The then-callback's normalization of the two payloads                   *)
(* (Dashboard, App.jsx lines 546-617), up to the value handed to setData.  *)
(***************************************************************************)
ChartDays == 7

\* (mutant of HasParameter: parameters?.properties)
HasProperties(payload) == ~payload.isNull /\ payload.hasProperties

\* parameters?.properties?.parameter
HasParameter(payload) ==
    ~payload.isNull /\ payload.hasProperties /\ payload.hasParameter

IsThrown(r) == r.thrown

\* the object literal of one date, or the first exception among its fields
ItemOf(date, fields) ==
    IF Len(SelectSeq(fields, IsThrown)) > 0
    THEN Throw(Head(SelectSeq(fields, IsThrown)).message)
    ELSE Return([date |-> slice(date, 4, 6) \o <<"/">> \o slice(date, 6, 8),
                 temp |-> fields[1].value,
                 humidity |-> fields[2].value,
                 wind |-> fields[3].value,
                 solar |-> fields[4].value])

ChartItem(params, rad, offset, date) ==
    CHOOSE item \in
        {ItemOf(date, fields) :
            fields \in {<<safeValueParameters(params, "T2M", date),
                          safeValueParameters(params, "RH2M", date),
                          safeValueParameters(params, "WS10M", date),
                          safeValueRadiations(params, rad, offset,
                              "diffuse_radiation_instant", date,
                              "ALLSKY_SFC_SW_DWN")>>}} : TRUE

\* (mutant of LastOrEmpty: chartData[0] || {})
FirstOrEmpty(chartData) ==
    IF Len(chartData) > 0 THEN chartData[1]
    ELSE [date |-> <<>>, temp |-> Undefined, humidity |-> Undefined,
          wind |-> Undefined, solar |-> Undefined]

\* latest = chartData[chartData.length - 1] || {}
LastOrEmpty(chartData) ==
    IF Len(chartData) > 0 THEN chartData[Len(chartData)]
    ELSE [date |-> <<>>, temp |-> Undefined, humidity |-> Undefined,
          wind |-> Undefined, solar |-> Undefined]

CurrentData(latest) ==
    [temp |-> OrZero(latest.temp),
     humidity |-> OrZero(latest.humidity),
     wind |-> OrZero(latest.wind),
     solar |-> OrZero(latest.solar)]

\* (mutant of Snapshot: latestDate = chartDates[0])
SnapshotFirstDate(chartDates, chartData) ==
    [isNull |-> FALSE,
     current |-> CurrentData(LastOrEmpty(chartData)),
     chart |-> chartData,
     latestDate |-> chartDates[1]]

\* the argument of setData
Snapshot(chartDates, chartData) ==
    [isNull |-> FALSE,
     current |-> CurrentData(LastOrEmpty(chartData)),
     chart |-> chartData,
     latestDate |-> chartDates[Len(chartDates)]]

\* (mutant of TempNotNull: every field gates inclusion)
NoFieldNull(item) ==
    /\ item.temp # Null
    /\ item.humidity # Null
    /\ item.wind # Null
    /\ item.solar # Null

\* .filter(item => item.temp !== null)
TempNotNull(item) == item.temp # Null

\* chartDates.map(...).filter(...) and what follows it; an exception of the
\* map callback ends the then-callback
FromMapped(chartDates, mapped) ==
    IF Len(SelectSeq(mapped, IsThrown)) > 0
    THEN Throw(Head(SelectSeq(mapped, IsThrown)).message)
    ELSE Return(Snapshot(chartDates,
             SelectSeq([k \in 1..Len(mapped) |-> mapped[k].value], TempNotNull)))

\* (a value that is used several times is bound as the element of a
\* one-element set, so that it is computed once)
FromChartDates(params, rad, offset, chartDates) ==
    CHOOSE result \in
        {FromMapped(chartDates, mapped) :
            mapped \in {[k \in 1..Len(chartDates) |->
                            ChartItem(params, rad, offset, chartDates[k])]}} :
        TRUE

FromValidDates(params, rad, offset, validDates) ==
    IF Len(validDates) = 0 THEN Throw(NoValidDataMessage)
    ELSE CHOOSE result \in
             {FromChartDates(params, rad, offset, chartDates) :
                 chartDates \in {sliceLast(validDates, ChartDays)}} : TRUE

\* (mutant of ValidDates: the last date is kept whatever its sample)
ValidDatesAndLast(params) ==
    LET IsValidOrLast(date) ==
            \/ NotSentinel(Get(params.T2M, date))
            \/ date = ObjectKeys(params.T2M)[Len(ObjectKeys(params.T2M))]
    IN  SelectSeq(ObjectKeys(params.T2M), IsValidOrLast)

\* (mutant of ValidDates: no filter)
AllDates(params) == ObjectKeys(params.T2M)

\* allDates.filter(date => params.T2M?.[date] !== -999)
ValidDates(params) ==
    LET IsValidDate(date) == NotSentinel(Get(params.T2M, date))
    IN  SelectSeq(ObjectKeys(params.T2M), IsValidDate)

ThenResult(payload, rad, offset) ==
    IF HasParameter(payload)
    THEN CHOOSE result \in
             {FromValidDates(payload.parameter, rad, offset, validDates) :
                 validDates \in {ValidDates(payload.parameter)}} : TRUE
    ELSE Throw(InvalidFormatMessage)

(***************************************************************************)
(* The bodies the two sources can answer with.  Days are counted from      *)
(* 2023-12-30, so that days 3 and 4 are 2024-01-01 and 2024-01-02; a       *)
(* sample's value is fixed by its parameter and day.                       *)
(***************************************************************************)
\* days of the window fetchNASAData asks for: today - 7 - 3 to today - 3
WindowDays == 8

StartDay == [year |-> 2023, month |-> 12, day |-> 30]

RECURSIVE DayAt(_)
DayAt(i) == IF i = 1 THEN StartDay ELSE NextDay(DayAt(i - 1))

\* YYYYMMDD, the primary source's date key
DateKey(i) ==
    Pad4(DayAt(i).year) \o Pad2(DayAt(i).month) \o Pad2(DayAt(i).day)

\* YYYY-MM-DDTHH:00, the secondary source's timestamp
IsoTime(i, hour) == IsoDate(DayAt(i)) \o <<"T">> \o Pad2(hour) \o <<":", "0", "0">>

ParameterNames == {"T2M", "RH2M", "WS10M", "ALLSKY_SFC_SW_DWN"}

SampleTable ==
    [T2M |-> <<1204, -325, 2050, 1875, 0, 2996, -48, 1349>>,
     RH2M |-> <<7325, 8110, 6000, 5500, 4449, 9996, 6672, 5051>>,
     WS10M |-> <<275, 512, 300, 400, 8, 1499, 96, 203>>,
     ALLSKY_SFC_SW_DWN |-> <<18850, 15075, 20000, 21000, 2, 19999, 121, 1764>>]

Sample(param, i) ==
    SampleTable[param][((i - 1) % Len(SampleTable[param])) + 1]

\* a parameter map over the days listed, in that order; the days in
\* missing carry the sentinel
ParameterMap(param, days, missing) ==
    Member([k \in 1..Len(days) |->
               <<DateKey(days[k]),
                 IF days[k] \in missing THEN Num(Sentinel)
                 ELSE Num(Sample(param, days[k]))>>])

Body(T2M, RH2M, WS10M, ALLSKY) ==
    [isNull |-> FALSE, hasProperties |-> TRUE, hasParameter |-> TRUE,
     parameter |-> [T2M |-> T2M, RH2M |-> RH2M, WS10M |-> WS10M,
                    ALLSKY_SFC_SW_DWN |-> ALLSKY]]

NoParameter == [T2M |-> Absent, RH2M |-> Absent, WS10M |-> Absent,
                ALLSKY_SFC_SW_DWN |-> Absent]

\* null; a body without properties; a body whose properties has no parameter
MalformedBodies ==
    {[isNull |-> TRUE, hasProperties |-> FALSE, hasParameter |-> FALSE,
      parameter |-> NoParameter],
     [isNull |-> FALSE, hasProperties |-> FALSE, hasParameter |-> FALSE,
      parameter |-> NoParameter],
     [isNull |-> FALSE, hasProperties |-> TRUE, hasParameter |-> FALSE,
      parameter |-> NoParameter]}

Ascending(n) == [k \in 1..n |-> k]
Descending(n) == [k \in 1..n |-> n + 1 - k]

\* the sets of days without a temperature: at most one day, or all the
\* days but at most one
MissingDays ==
    {m \in SUBSET (1..WindowDays) :
        Cardinality(m) <= 1 \/ Cardinality(m) >= WindowDays - 1}

\* a full window: every parameter on every day, the members in ascending or
\* in descending order
WindowBodies ==
    {Body(ParameterMap("T2M", days, missing),
          ParameterMap("RH2M", days, {}),
          ParameterMap("WS10M", days, {}),
          ParameterMap("ALLSKY_SFC_SW_DWN", days, {})) :
        days \in {Ascending(WindowDays), Descending(WindowDays)},
        missing \in MissingDays}

TwoDays == <<3, 4>>

\* two days, any temperature missing, and any of the other parameters
\* missing on one of the days
TwoDayBodies ==
    {Body(ParameterMap("T2M", TwoDays, t),
          ParameterMap("RH2M", TwoDays, m[1]),
          ParameterMap("WS10M", TwoDays, m[2]),
          ParameterMap("ALLSKY_SFC_SW_DWN", TwoDays, m[3])) :
        t \in SUBSET {3, 4},
        m \in [1..3 -> {{}, {3}}] \cup [1..3 -> {{}, {4}}]}

\* two days, any temperature or surface radiation sample missing
FallbackBodies ==
    {Body(ParameterMap("T2M", TwoDays, m[1]),
          ParameterMap("RH2M", TwoDays, {}),
          ParameterMap("WS10M", TwoDays, {}),
          ParameterMap("ALLSKY_SFC_SW_DWN", TwoDays, m[2])) :
        m \in [1..2 -> SUBSET {3, 4}]}

\* two days with every sample
CompleteBody ==
    Body(ParameterMap("T2M", TwoDays, {}),
         ParameterMap("RH2M", TwoDays, {}),
         ParameterMap("WS10M", TwoDays, {}),
         ParameterMap("ALLSKY_SFC_SW_DWN", TwoDays, {}))

\* two days, the temperature of the second missing: the primary payload
\* {T2M: {20240101: 20.5, 20240102: -999}, RH2M: {60, 55}, WS10M: {3, 4},
\*  ALLSKY_SFC_SW_DWN: {200, 210}}
ScenarioBody ==
    Body(ParameterMap("T2M", TwoDays, {4}),
         ParameterMap("RH2M", TwoDays, {}),
         ParameterMap("WS10M", TwoDays, {}),
         ParameterMap("ALLSKY_SFC_SW_DWN", TwoDays, {}))

\* two days, one parameter map absent, empty or without one of the days
DefectiveMaps(param) ==
    {Absent, Member(<<>>), ParameterMap(param, <<3>>, {}),
     ParameterMap(param, <<4>>, {})}

FullTwoDays ==
    [T2M |-> ParameterMap("T2M", TwoDays, {}),
     RH2M |-> ParameterMap("RH2M", TwoDays, {}),
     WS10M |-> ParameterMap("WS10M", TwoDays, {}),
     ALLSKY_SFC_SW_DWN |-> ParameterMap("ALLSKY_SFC_SW_DWN", TwoDays, {})]

DefectiveBodies ==
    UNION {{[isNull |-> FALSE, hasProperties |-> TRUE, hasParameter |-> TRUE,
             parameter |-> [FullTwoDays EXCEPT ![param] = map]] :
               map \in DefectiveMaps(param)} : param \in ParameterNames}

(***************************************************************************)
(* Request B's result: null, or a body with or without error, hourly,      *)
(* hourly.time and hourly.diffuse_radiation_instant.                       *)
(***************************************************************************)
Hourly(time, samples) == [time |-> time, diffuse_radiation_instant |-> samples]

Radiations(err, hasHourly, hourly) ==
    [isNull |-> FALSE, error |-> err, hasHourly |-> hasHourly, hourly |-> hourly]

NullRadiations ==
    [isNull |-> TRUE, error |-> FALSE, hasHourly |-> FALSE,
     hourly |-> Hourly(Absent, Absent)]

\* 2024-01-01T00:00, 2024-01-01T12:00, 2024-01-02T00:00
HourlyTimes == <<IsoTime(3, 0), IsoTime(3, 12), IsoTime(4, 0)>>

SampleValues == {Num(10000), Num(30000), Null, NaN}

SampleArrays == UNION {[1..n -> SampleValues] : n \in 0..MaxSamples}

\* hourly.time = [2024-01-01T00:00, 2024-01-01T12:00],
\* hourly.diffuse_radiation_instant = [100, 300]
ScenarioRadiations ==
    Radiations(FALSE, TRUE,
               Hourly(Member(<<IsoTime(3, 0), IsoTime(3, 12)>>),
                      Member(<<Num(10000), Num(30000)>>)))

UsableRadiations ==
    {Radiations(FALSE, TRUE, Hourly(Member(HourlyTimes), Member(samples))) :
        samples \in SampleArrays}

\* hourly has the target variable but no time sequence
TimelessRadiations ==
    Radiations(FALSE, TRUE, Hourly(Absent, Member(<<Num(10000), Num(30000)>>)))

\* { error: true }, { error: true, hourly }, a body without hourly, and an
\* hourly without diffuse_radiation_instant
UnavailableRadiations ==
    {Radiations(TRUE, FALSE, Hourly(Absent, Absent)),
     Radiations(TRUE, TRUE, ScenarioRadiations.hourly),
     Radiations(FALSE, FALSE, Hourly(Absent, Absent)),
     Radiations(FALSE, TRUE, Hourly(ScenarioRadiations.hourly.time, Absent))}

\* minutes east of UTC: New York (winter), UTC, Madrid (winter)
TimezoneOffsets == {-300, 0, 60}

\* the answers and the host zone of one behaviour
Inputs ==
    ((WindowBodies \cup TwoDayBodies) \X {NullRadiations} \X {0})
    \cup (FallbackBodies \X UnavailableRadiations \X {0})
    \cup ({CompleteBody} \X UsableRadiations \X {0})
    \cup ({CompleteBody, ScenarioBody}
             \X {ScenarioRadiations, TimelessRadiations} \X TimezoneOffsets)
    \cup (DefectiveBodies \X {NullRadiations, ScenarioRadiations} \X {0})
    \cup (MalformedBodies
             \X ({NullRadiations, ScenarioRadiations} \cup UnavailableRadiations)
             \X {0})

(***************************************************************************)
(* The App and the Dashboard component.                                    *)
(***************************************************************************)
\* two of the markers of the locations array
Locations == {"Lima, Peru", "Tokyo, Japan"}
NoLocation == "null"

NoError == "null"

NullData ==
    [isNull |-> TRUE,
     current |-> [temp |-> Num(0), humidity |-> Num(0), wind |-> Num(0),
                  solar |-> Num(0)],
     chart |-> <<>>,
     latestDate |-> <<>>]

\* err.message of the TypeError a failed fetch() rejects with, and of the
\* SyntaxError response.json() rejects with
NetworkErrorMessage == "Failed to fetch"
SyntaxErrorMessage == "Unexpected token '<', \"<!DOCTYPE \"... is not valid JSON"

\* why fetchNASAData's promise was rejected
RequestANetwork == "Request A network"
RequestABody == "Request A body"
RequestBNetwork == "Request B network"
RequestBBody == "Request B body"

\* no call of a utility function is looked at
NoCall == [fn |-> "none", arg |-> Null]
NotReturned == <<"not returned">>

\* the state in which the page is loaded
Mounted ==
    /\ selectedLocation = NoLocation
    /\ showDashboard = FALSE
    /\ data = NullData
    /\ loading = TRUE
    /\ error = NoError
    /\ deps = NoLocation
    /\ cycles = <<>>
    /\ started = 0
    /\ settled = "none"
    /\ clicks = 0
    /\ dragStartY = 0
    /\ dragOffset = 0
    /\ isDragging = FALSE

\* every location's requests get the same two results
SameAnswers == [location \in Locations |-> <<parameters, radiations>>]

Init ==
    /\ \E input \in Inputs :
           /\ parameters = input[1]
           /\ radiations = input[2]
           /\ utcOffset = input[3]
    /\ answers = SameAnswers
    /\ Mounted
    /\ clickLimit = MaxCycles
    /\ call = NoCall
    /\ returned = NotReturned

inputs == <<parameters, radiations, utcOffset, answers, clickLimit, call,
            returned>>

gesture == <<dragStartY, dragOffset, isDragging>>

\* App.handleLocationClick; the effects of the render of one click have run
\* when the next click is handled
handleLocationClick(location) ==
    /\ clicks < clickLimit
    /\ selectedLocation = deps
    /\ clicks' = clicks + 1
    /\ selectedLocation' = location
    /\ showDashboard' = TRUE
    /\ UNCHANGED <<inputs, gesture, data, loading, error, deps, cycles, started, settled>>

\* (mutant of FetchEffect: setError(null) is not called)
FetchEffectKeepingError ==
    /\ selectedLocation # deps
    /\ deps' = selectedLocation
    /\ IF selectedLocation # NoLocation
       THEN /\ loading' = TRUE
            /\ cycles' = Append(cycles, [id |-> started + 1,
                                         location |-> selectedLocation,
                                         pc |-> "requestA", calls |-> 1,
                                         cause |-> "", message |-> ""])
            /\ started' = started + 1
            /\ settled' = "none"
            /\ UNCHANGED error
       ELSE UNCHANGED <<loading, error, cycles, started, settled>>
    /\ UNCHANGED <<inputs, gesture, selectedLocation, showDashboard, data,
                   clicks>>

\* (mutant of FetchEffect: the cycles still unresolved are dropped)
FetchEffectCancelling ==
    /\ selectedLocation # deps
    /\ deps' = selectedLocation
    /\ IF selectedLocation # NoLocation
       THEN /\ loading' = TRUE
            /\ error' = NoError
            /\ cycles' = <<[id |-> started + 1,
                            location |-> selectedLocation,
                            pc |-> "requestA", calls |-> 1,
                            cause |-> "", message |-> ""]>>
            /\ started' = started + 1
            /\ settled' = "none"
       ELSE UNCHANGED <<loading, error, cycles, started, settled>>
    /\ UNCHANGED <<inputs, gesture, selectedLocation, showDashboard, data,
                   clicks>>

\* Dashboard's useEffect(..., [location]): runs after a render in which
\* location differs from the one it last ran with.  fetchNASAData runs up
\* to its first await: Request A is sent
FetchEffect ==
    /\ selectedLocation # deps
    /\ deps' = selectedLocation
    /\ IF selectedLocation # NoLocation
       THEN /\ loading' = TRUE
            /\ error' = NoError
            /\ cycles' = Append(cycles, [id |-> started + 1,
                                         location |-> selectedLocation,
                                         pc |-> "requestA", calls |-> 1,
                                         cause |-> "", message |-> ""])
            /\ started' = started + 1
            /\ settled' = "none"
       ELSE UNCHANGED <<loading, error, cycles, started, settled>>
    /\ UNCHANGED <<inputs, gesture, selectedLocation, showDashboard, data, clicks>>

Remove(s, i) == SubSeq(s, 1, i - 1) \o SubSeq(s, i + 1, Len(s))

\* (mutant of ThenCallback: the date of an already stored snapshot is kept)
ThenCallbackMerging(i) ==
    /\ i \in DOMAIN cycles
    /\ cycles[i].pc = "pending"
    /\ \E result \in {ThenResult(answers[cycles[i].location][1],
                                  answers[cycles[i].location][2], utcOffset)} :
           IF result.thrown
           THEN /\ cycles' = [cycles EXCEPT ![i].pc = "thrown",
                                            ![i].message = result.message]
                /\ UNCHANGED <<data, loading, settled>>
           ELSE /\ data' = IF data.isNull THEN result.value
                           ELSE [result.value EXCEPT
                                    !.latestDate = data.latestDate]
                /\ loading' = FALSE
                /\ cycles' = Remove(cycles, i)
                /\ settled' = "then"
    /\ UNCHANGED <<inputs, gesture, selectedLocation, showDashboard, error,
                   deps, started, clicks>>

\* fetchNASAData's promise is fulfilled with { parameters, radiations } and
\* the then-callback runs
ThenCallback(i) ==
    /\ i \in DOMAIN cycles
    /\ cycles[i].pc = "pending"
    /\ \E result \in {ThenResult(answers[cycles[i].location][1],
                                  answers[cycles[i].location][2], utcOffset)} :
           IF result.thrown
           THEN /\ cycles' = [cycles EXCEPT ![i].pc = "thrown",
                                            ![i].message = result.message]
                /\ UNCHANGED <<data, loading, settled>>
           ELSE /\ data' = result.value
                /\ loading' = FALSE
                /\ cycles' = Remove(cycles, i)
                /\ settled' = "then"
    /\ UNCHANGED <<inputs, gesture, selectedLocation, showDashboard, error, deps, started,
                   clicks>>

\* fetchNASAData's catch block rethrows: its promise is rejected
Rejected(i, cause, message) ==
    /\ cycles' = [cycles EXCEPT ![i].pc = "rejected", ![i].cause = cause,
                                ![i].message = message]
    /\ UNCHANGED <<inputs, gesture, selectedLocation, showDashboard, data, loading,
                   error, deps, started, settled, clicks>>

\* await fetch(urlParameters) gives a response, of any status;
\* fetch(urlRadiations) is called
ResponseA(i) ==
    /\ i \in DOMAIN cycles
    /\ cycles[i].pc = "requestA"
    /\ cycles' = [cycles EXCEPT ![i].pc = "requestB", ![i].calls = 2]
    /\ UNCHANGED <<inputs, gesture, selectedLocation, showDashboard, data, loading,
                   error, deps, started, settled, clicks>>

\* await fetch(urlParameters) throws
NetworkErrorA(i) ==
    /\ i \in DOMAIN cycles
    /\ cycles[i].pc = "requestA"
    /\ Rejected(i, RequestANetwork, NetworkErrorMessage)

\* await fetch(urlRadiations) gives a response and both bodies are read:
\* parameters is Request A's body, radiations Request B's body if its
\* status is a success and null if not; the promise is fulfilled
ResponseB(i) ==
    /\ i \in DOMAIN cycles
    /\ cycles[i].pc = "requestB"
    /\ cycles' = [cycles EXCEPT ![i].pc = "pending"]
    /\ UNCHANGED <<inputs, gesture, selectedLocation, showDashboard, data, loading,
                   error, deps, started, settled, clicks>>

\* await fetch(urlRadiations) throws
NetworkErrorB(i) ==
    /\ i \in DOMAIN cycles
    /\ cycles[i].pc = "requestB"
    /\ Rejected(i, RequestBNetwork, NetworkErrorMessage)

\* await fetch(urlRadiations) gives a response and resParameters.json()
\* throws, or the response is a success and resRadiations.json() throws
UnparsableBody(i, cause) ==
    /\ i \in DOMAIN cycles
    /\ cycles[i].pc = "requestB"
    /\ Rejected(i, cause, SyntaxErrorMessage)

\* (mutant of CatchCallback: setLoading(false) is not called)
CatchCallbackStillLoading(i) ==
    /\ i \in DOMAIN cycles
    /\ cycles[i].pc \in {"thrown", "rejected"}
    /\ error' = (IF cycles[i].message # "" THEN cycles[i].message
                 ELSE FailedToFetchMessage)
    /\ settled' = (IF cycles[i].pc = "thrown" THEN "catch after throw"
                   ELSE cycles[i].cause)
    /\ cycles' = Remove(cycles, i)
    /\ UNCHANGED <<inputs, gesture, selectedLocation, showDashboard, data,
                   loading, deps, started, clicks>>

\* (mutant of CatchCallback: an error without a message is stored as null)
CatchCallbackNoFallback(i) ==
    /\ i \in DOMAIN cycles
    /\ cycles[i].pc \in {"thrown", "rejected"}
    /\ error' = (IF cycles[i].pc = "thrown" THEN cycles[i].message
                 ELSE NoError)
    /\ loading' = FALSE
    /\ settled' = (IF cycles[i].pc = "thrown" THEN "catch after throw"
                   ELSE cycles[i].cause)
    /\ cycles' = Remove(cycles, i)
    /\ UNCHANGED <<inputs, gesture, selectedLocation, showDashboard, data,
                   deps, started, clicks>>

\* (mutant of CatchCallback: setError is not called)
CatchCallbackSilent(i) ==
    /\ i \in DOMAIN cycles
    /\ cycles[i].pc \in {"thrown", "rejected"}
    /\ loading' = FALSE
    /\ settled' = (IF cycles[i].pc = "thrown" THEN "catch after throw"
                   ELSE cycles[i].cause)
    /\ cycles' = Remove(cycles, i)
    /\ UNCHANGED <<inputs, gesture, selectedLocation, showDashboard, data, error, deps,
                   started, clicks>>

\* .catch((err) => ...)
CatchCallback(i) ==
    /\ i \in DOMAIN cycles
    /\ cycles[i].pc \in {"thrown", "rejected"}
    /\ error' = (IF cycles[i].message # "" THEN cycles[i].message
                 ELSE FailedToFetchMessage)
    /\ loading' = FALSE
    /\ settled' = (IF cycles[i].pc = "thrown" THEN "catch after throw"
                   ELSE cycles[i].cause)
    /\ cycles' = Remove(cycles, i)
    /\ UNCHANGED <<inputs, gesture, selectedLocation, showDashboard, data, deps, started,
                   clicks>>

Next ==
    \/ \E location \in Locations : handleLocationClick(location)
    \/ FetchEffect
    \/ \E i \in DOMAIN cycles : ThenCallback(i)
    \/ \E i \in DOMAIN cycles : ResponseA(i)
    \/ \E i \in DOMAIN cycles : NetworkErrorA(i)
    \/ \E i \in DOMAIN cycles : ResponseB(i)
    \/ \E i \in DOMAIN cycles : NetworkErrorB(i)
    \/ \E i \in DOMAIN cycles, cause \in {RequestABody, RequestBBody} :
           UnparsableBody(i, cause)
    \/ \E i \in DOMAIN cycles : CatchCallback(i)

Spec == Init /\ [][Next]_vars

(***************************************************************************)
(* The same program over a few payloads and more marker clicks.            *)
(***************************************************************************)
SelectionInputs ==
    {CompleteBody, ScenarioBody} \X {NullRadiations, ScenarioRadiations} \X {0}

InitSelections ==
    /\ \E input \in SelectionInputs :
           /\ parameters = input[1]
           /\ radiations = input[2]
           /\ utcOffset = input[3]
    /\ answers = SameAnswers
    /\ Mounted
    /\ clickLimit = MaxClicks
    /\ call = NoCall
    /\ returned = NotReturned

SpecSelections == InitSelections /\ [][Next]_vars

(***************************************************************************)
(* The same program with results that depend on the location asked for,    *)
(* so that the snapshot of one location is told from that of another.      *)
(***************************************************************************)

\* the body {}
EmptyBody ==
    [isNull |-> FALSE, hasProperties |-> FALSE, hasParameter |-> FALSE,
     parameter |-> NoParameter]

\* results normalized to two different snapshots, and a result the
\* then-callback rejects
LocationResults ==
    {<<CompleteBody, NullRadiations>>, <<ScenarioBody, ScenarioRadiations>>,
     <<EmptyBody, NullRadiations>>}

FirstLocation == "Lima, Peru"

InitLocations ==
    /\ answers \in [Locations -> LocationResults]
    /\ parameters = answers[FirstLocation][1]
    /\ radiations = answers[FirstLocation][2]
    /\ utcOffset = 0
    /\ Mounted
    /\ clickLimit = MaxClicks
    /\ call = NoCall
    /\ returned = NotReturned

SpecLocations == InitLocations /\ [][Next]_vars

\* (mutant of DashboardView: a stored snapshot is rendered before the
\* error is tested)
DashboardViewDataFirst ==
    IF selectedLocation = NoLocation
    THEN [view |-> "select", message |-> NoError, shown |-> NullData]
    ELSE IF loading
    THEN [view |-> "loading", message |-> NoError, shown |-> NullData]
    ELSE IF ~data.isNull
    THEN [view |-> "metrics", message |-> NoError, shown |-> data]
    ELSE [view |-> "error", message |-> error, shown |-> NullData]

(***************************************************************************)
(* The same program when every request that was sent settles and React and *)
(* the promise job queue run what they have scheduled: the effect of a     *)
(* render and the steps of the unresolved cycles are not put off forever.  *)
(***************************************************************************)
Scheduled ==
    \/ FetchEffect
    \/ \E i \in DOMAIN cycles : ResponseA(i)
    \/ \E i \in DOMAIN cycles : ResponseB(i)
    \/ \E i \in DOMAIN cycles : ThenCallback(i)
    \/ \E i \in DOMAIN cycles : CatchCallback(i)

\* a result that is normalized to a snapshot and one the then-callback
\* rejects
SettlingResults ==
    {<<CompleteBody, NullRadiations>>, <<EmptyBody, NullRadiations>>}

\* the first location's result is normalized to a snapshot, the results of
\* the others are either
InitSettling ==
    /\ answers \in {a \in [Locations -> SettlingResults] :
                       a[FirstLocation] = <<CompleteBody, NullRadiations>>}
    /\ parameters = answers[FirstLocation][1]
    /\ radiations = answers[FirstLocation][2]
    /\ utcOffset = 0
    /\ Mounted
    /\ clickLimit = MaxClicks
    /\ call = NoCall
    /\ returned = NotReturned

SpecSettling == InitSettling /\ [][Next]_vars /\ WF_vars(Scheduled)

(***************************************************************************)
(* What Dashboard renders: the prompt to select a location, the loading    *)
(* view, the error view with the message and the Retry button, or the      *)
(* metrics and the chart of the stored snapshot, tested in that order.     *)
(***************************************************************************)
DashboardView ==
    IF selectedLocation = NoLocation
    THEN [view |-> "select", message |-> NoError, shown |-> NullData]
    ELSE IF loading
    THEN [view |-> "loading", message |-> NoError, shown |-> NullData]
    ELSE IF error # NoError /\ error # ""
    THEN [view |-> "error", message |-> error, shown |-> NullData]
    ELSE [view |-> "metrics", message |-> NoError, shown |-> data]

(***************************************************************************)
(* The functions of src/utils applied to arguments of their own: the page  *)
(* stays as loaded, a call is drawn and the function returns.              *)
(***************************************************************************)
\* the program's variables while a utility function is looked at
Idle ==
    /\ parameters = CompleteBody
    /\ radiations = NullRadiations
    /\ utcOffset = 0
    /\ answers = SameAnswers
    /\ Mounted
    /\ clickLimit = 0

program == <<parameters, radiations, utcOffset, answers, selectedLocation,
             showDashboard, gesture, data, loading, error, deps, cycles,
             started, settled, clicks, clickLimit>>

\* the strings of a length up to n over the characters given
RECURSIVE StringsUpTo(_, _)
StringsUpTo(chars, n) ==
    IF n = 0 THEN {<<>>}
    ELSE LET shorter == StringsUpTo(chars, n - 1)
         IN  shorter \cup {Append(t, c) : t \in shorter, c \in chars}

\* null, undefined, the key 20240115 and the strings over a digit and a
\* letter: empty, shorter than 8, of length 8, longer
DisplayArguments ==
    {Null, Undefined, Str(<<"2", "0", "2", "4", "0", "1", "1", "5">>)}
    \cup {Str(t) : t \in StringsUpTo({"1", "x"}, DisplayLen)}

InitDisplay ==
    /\ Idle
    /\ call \in {[fn |-> "formatDisplayDate", arg |-> a] : a \in DisplayArguments}
    /\ returned = NotReturned

CallFormatDisplayDate ==
    /\ call.fn = "formatDisplayDate"
    /\ returned = NotReturned
    /\ returned' = formatDisplayDate(call.arg)
    /\ UNCHANGED <<program, call>>

NextDisplay == CallFormatDisplayDate

SpecDisplay == InitDisplay /\ [][NextDisplay]_vars

(***************************************************************************)
(* The request window of fetchNASAData, as a function of the moment of the *)
(* call and of the host's time zone.                                       *)
(***************************************************************************)

\* d is an earlier moment than e, both read on the host's clock
EarlierMoment(d, e) ==
    \/ d.year < e.year
    \/ d.year = e.year /\ d.month < e.month
    \/ d.year = e.year /\ d.month = e.month /\ d.day < e.day
    \/ d.year = e.year /\ d.month = e.month /\ d.day = e.day
         /\ d.minute < e.minute

\* a zone: minutes east of UTC before and from a change of its clocks
FixedZone(name, offset) ==
    [name |-> name, before |-> offset, after |-> offset,
     change |-> [year |-> 2024, month |-> 1, day |-> 1, minute |-> 0]]

\* Europe/London in spring 2024: GMT until 31 March 01:00, then BST
London ==
    [name |-> "Europe/London", before |-> 0, after |-> 60,
     change |-> [year |-> 2024, month |-> 3, day |-> 31, minute |-> 60]]

HostZones ==
    {FixedZone("America/Lima", 0 - 300), FixedZone("UTC", 0),
     FixedZone("Asia/Tokyo", 540), London}

\* the zone's minutes east of UTC at a moment of the host's clock
OffsetAt(zone, dateObj) ==
    IF EarlierMoment(dateObj, zone.change) THEN zone.before ELSE zone.after

\* 00:30, noon and 23:30
ClockMinutes == {30, 12 * 60, 23 * 60 + 30}

RECURSIVE DaysFrom(_, _)
DaysFrom(first, n) ==
    IF n = 0 THEN {} ELSE {first} \cup DaysFrom(NextDay(first), n - 1)

\* the moments of a call: InvocationDays days from New Year and as many
\* around the change of the clocks, at each of the clock times
InvocationMoments ==
    {[d EXCEPT !.minute = m] :
        d \in DaysFrom(NewDate(2024, 0, 1), InvocationDays)
              \cup DaysFrom(NewDate(2024, 2, 27), InvocationDays),
        m \in ClockMinutes}

\* the dates put in the two URLs: start and end of Request A, start_date
\* and end_date of Request B
RequestDates(startDate, endDate, zone) ==
    <<formatDateWithHyphen(startDate, OffsetAt(zone, startDate)),
      formatDateWithHyphen(endDate, OffsetAt(zone, endDate)),
      formatDateWithoutHyphen(startDate, OffsetAt(zone, startDate)),
      formatDateWithoutHyphen(endDate, OffsetAt(zone, endDate))>>

\* endDate is three days before the call and startDate seven days before
\* endDate, both at the time of day of the call
RequestWindow(now, zone) ==
    RequestDates(setDateBack(now, 7 + 3), setDateBack(now, 3), zone)

InitWindow ==
    /\ Idle
    /\ call \in {[fn |-> "fetchNASAData", arg |-> [now |-> n, zone |-> z]] :
                    n \in InvocationMoments, z \in HostZones}
    /\ returned = NotReturned

BuildRequestUrls ==
    /\ call.fn = "fetchNASAData"
    /\ returned = NotReturned
    /\ returned' = RequestWindow(call.arg.now, call.arg.zone)
    /\ UNCHANGED <<program, call>>

NextWindow == BuildRequestUrls

SpecWindow == InitWindow /\ [][NextWindow]_vars

(***************************************************************************)
(* The drag handle of the mobile layout: App's three touch handlers, each  *)
(* run on the state of the latest render.  call records the handler that   *)
(* ran last and the clientY of its touch.                                  *)
(***************************************************************************)
DragThreshold == 50

\* clientY of the first touch of an event
TouchYs == {0, 1, 50, 51, 101}

apart == <<parameters, radiations, utcOffset, answers, selectedLocation, data,
           loading, error, deps, cycles, started, settled, clicks,
           clickLimit, returned>>

handleTouchStart(clientY) ==
    /\ dragStartY' = clientY
    /\ isDragging' = TRUE
    /\ call' = [fn |-> "handleTouchStart", arg |-> Num(clientY)]
    /\ UNCHANGED <<apart, dragOffset, showDashboard>>

handleTouchMove(clientY) ==
    /\ IF ~isDragging THEN UNCHANGED dragOffset
       ELSE dragOffset' = dragStartY - clientY
    /\ call' = [fn |-> "handleTouchMove", arg |-> Num(clientY)]
    /\ UNCHANGED <<apart, dragStartY, isDragging, showDashboard>>

\* (mutant of handleTouchEnd: setDragOffset(0) is not called)
handleTouchEndKeepingOffset ==
    /\ isDragging' = FALSE
    /\ showDashboard' = (IF dragOffset > DragThreshold THEN TRUE
                         ELSE IF dragOffset < 0 - DragThreshold THEN FALSE
                         ELSE showDashboard)
    /\ call' = [fn |-> "handleTouchEnd", arg |-> Null]
    /\ UNCHANGED <<apart, dragStartY, dragOffset>>

handleTouchEnd ==
    /\ isDragging' = FALSE
    /\ showDashboard' = (IF dragOffset > DragThreshold THEN TRUE
                         ELSE IF dragOffset < 0 - DragThreshold THEN FALSE
                         ELSE showDashboard)
    /\ dragOffset' = 0
    /\ call' = [fn |-> "handleTouchEnd", arg |-> Null]
    /\ UNCHANGED <<apart, dragStartY>>

InitGesture ==
    /\ Idle
    /\ call = NoCall
    /\ returned = NotReturned

NextGesture ==
    \/ \E clientY \in TouchYs : handleTouchStart(clientY)
    \/ \E clientY \in TouchYs : handleTouchMove(clientY)
    \/ handleTouchEnd

SpecGesture == InitGesture /\ [][NextGesture]_vars

(***************************************************************************)
(* Properties.  They are stated on the payloads of the behaviour and on    *)
(* the Dashboard's state, not through the operators above; only C8, an     *)
(* equivalence of two normalizations, names ThenResult.                    *)
(***************************************************************************)
\* the members of a parameter map of the primary payload, as a set
WellFormed ==
    ~parameters.isNull /\ parameters.hasProperties /\ parameters.hasParameter

Members(param) ==
    IF WellFormed /\ parameters.parameter[param].present
    THEN {parameters.parameter[param].entries[i] :
             i \in DOMAIN parameters.parameter[param].entries}
    ELSE {}

\* the raw sample of a parameter at a date key
Raw(param, key) == (CHOOSE m \in Members(param) : m[1] = key)[2]
HasRaw(param, key) == \E m \in Members(param) : m[1] = key

\* the valid dates: the T2M keys whose sample is not -999
ValidKeys == {m[1] : m \in {e \in Members("T2M") : e[2] # Num(Sentinel)}}
SentinelKeys == {m[1] : m \in {e \in Members("T2M") : e[2] = Num(Sentinel)}}

KeyNumber(key) ==
    10000000 * DigitVal(key[1]) + 1000000 * DigitVal(key[2])
    + 100000 * DigitVal(key[3]) + 10000 * DigitVal(key[4])
    + 1000 * DigitVal(key[5]) + 100 * DigitVal(key[6])
    + 10 * DigitVal(key[7]) + DigitVal(key[8])

Later(key, keys) == {j \in keys : KeyNumber(j) > KeyNumber(key)}
Earlier(key, keys) == {j \in keys : KeyNumber(j) < KeyNumber(key)}

\* the 7 chronologically latest valid dates, or all of them
KeptKeys == {key \in ValidKeys : Cardinality(Later(key, ValidKeys)) < 7}

\* MM/DD of a date key
Label(key) == <<key[5], key[6], "/", key[7], key[8]>>

\* the date key a series entry stands for
KeyOf(item) == CHOOSE key \in ValidKeys \cup SentinelKeys : Label(key) = item.date

Min(a, b) == IF a < b THEN a ELSE b

Stored == ~data.isNull

\* r is x rounded to one decimal place (both in hundredths), a tie away from 0
IsRounded(r, x) ==
    /\ r % 10 = 0
    /\ 2 * Abs(r - x) <= 10
    /\ (Abs(r - x) = 5 => Abs(r) > Abs(x))

\* field is the derived value of the raw sample: null for -999, else rounded
Derived(field, raw) ==
    IF raw = Num(Sentinel) THEN field = Null
    ELSE IsNum(field) /\ IsRounded(field.v, raw.v)

\* the cycles whose then-callback threw all threw this message, and if the
\* catch callback of one of them ran last, the Dashboard is in the error
\* state with it
FailsWith(message) ==
    /\ \A i \in DOMAIN cycles :
           cycles[i].pc = "thrown" => cycles[i].message = message
    /\ settled # "then"
    /\ settled = "catch after throw" => (error = message /\ ~loading)

(* C1: when the primary payload has properties.parameter and every T2M     *)
(* entry is -999 (or T2M is empty or absent), normalization fails with the *)
(* 'no valid data' error: the cycle ends in the error state with that      *)
(* message and no snapshot is ever stored.                                 *)
C1_NoValidDataFails ==
    (WellFormed /\ ValidKeys = {})
        => (FailsWith(NoValidDataMessage) /\ ~Stored)

C1_Witness ==
    /\ WellFormed
    /\ ValidKeys = {}
    /\ SentinelKeys # {}
    /\ settled = "catch after throw"
    /\ error = NoValidDataMessage
    /\ ~loading

(* C2: when properties or properties.parameter is absent from the primary  *)
(* payload (or the payload is null), normalization fails with the invalid  *)
(* format error whatever the secondary payload is, and no snapshot is      *)
(* stored.                                                                 *)
C2_InvalidFormatFails ==
    ~WellFormed
        => (FailsWith(InvalidFormatMessage) /\ ~Stored)

C2_Witness ==
    /\ ~parameters.isNull
    /\ parameters.hasProperties
    /\ ~parameters.hasParameter
    /\ ~radiations.isNull
    /\ settled = "catch after throw"
    /\ error = InvalidFormatMessage
    /\ ~loading

(* C3: with n valid dates, a stored series has exactly min(n, 7) entries,  *)
(* one for each of the min(n, 7) chronologically latest valid dates, in    *)
(* ascending chronological order, each labelled MM/DD from its date key.   *)
C3_LatestSevenAscending ==
    Stored =>
        /\ Len(data.chart) = Min(Cardinality(ValidKeys), 7)
        /\ \A key \in KeptKeys :
               data.chart[Cardinality(Earlier(key, KeptKeys)) + 1].date = Label(key)

C3_Witness ==
    /\ Stored
    /\ Cardinality(ValidKeys) > 7
    /\ Len(data.chart) = 7
    /\ parameters.parameter.T2M.entries[1][1] = DateKey(WindowDays)
    /\ data.chart[1].date = Label(DateKey(2))

(* C4: in a stored snapshot no series entry stands for a day whose T2M     *)
(* sample is -999 and none has a null temperature; temperature alone gates *)
(* inclusion: every kept valid date has its entry whatever its humidity,   *)
(* wind and solar fields are.                                              *)
C4_OnlyTemperatureGates ==
    Stored =>
        /\ \A k \in DOMAIN data.chart :
               /\ data.chart[k].temp # Null
               /\ \E key \in ValidKeys : Label(key) = data.chart[k].date
               /\ \A key \in SentinelKeys : Label(key) # data.chart[k].date
        /\ \A key \in KeptKeys :
               \E k \in DOMAIN data.chart : data.chart[k].date = Label(key)

C4_Witness ==
    /\ Stored
    /\ SentinelKeys # {}
    /\ \E k \in DOMAIN data.chart :
           /\ data.chart[k].humidity = Null
           /\ data.chart[k].wind = Null
           /\ data.chart[k].solar = Null

(* C5: for every date kept in the series, temp, humidity and wind are null *)
(* exactly when the raw T2M, RH2M, WS10M sample at that date key is -999   *)
(* and otherwise equal the raw sample rounded to one decimal place; a      *)
(* sentinel humidity or wind sample neither drops the day nor fails the    *)
(* cycle.                                                                  *)
C5_FieldsNullOrRounded ==
    Stored =>
        \A k \in DOMAIN data.chart :
            /\ Derived(data.chart[k].temp, Raw("T2M", KeyOf(data.chart[k])))
            /\ Derived(data.chart[k].humidity, Raw("RH2M", KeyOf(data.chart[k])))
            /\ Derived(data.chart[k].wind, Raw("WS10M", KeyOf(data.chart[k])))

C5_Witness ==
    /\ Stored
    /\ \E k \in DOMAIN data.chart :
           /\ Raw("RH2M", KeyOf(data.chart[k])) = Num(Sentinel)
           /\ data.chart[k].humidity = Null
    /\ \E k \in DOMAIN data.chart :
           /\ Raw("WS10M", KeyOf(data.chart[k])) = Num(Sentinel)
           /\ data.chart[k].wind = Null
    /\ \E k \in DOMAIN data.chart :
           data.chart[k].temp # Raw("T2M", KeyOf(data.chart[k]))

\* x with null (or an absent field, or 0) replaced by 0
Defaulted(x) == IF x = Null \/ x = Undefined \/ x = NaN THEN Num(0) ELSE x

(* C6: in a stored snapshot, current is the four fields of the             *)
(* chronologically last series entry with every null field replaced by 0.  *)
C6_CurrentIsLastEntry ==
    Stored =>
        /\ Len(data.chart) > 0
        /\ data.current.temp = Defaulted(data.chart[Len(data.chart)].temp)
        /\ data.current.humidity = Defaulted(data.chart[Len(data.chart)].humidity)
        /\ data.current.wind = Defaulted(data.chart[Len(data.chart)].wind)
        /\ data.current.solar = Defaulted(data.chart[Len(data.chart)].solar)

C6_Witness ==
    /\ Stored
    /\ Len(data.chart) = 2
    /\ data.chart[2].humidity = Null
    /\ data.chart[1].humidity # Null
    /\ data.current.humidity = Num(0)
    /\ data.current.temp = data.chart[2].temp
    /\ data.chart[1].temp # data.chart[2].temp

\* the entry and the current record of the spec's fallback scenario:
\* 01/01 with temperature 20.5, humidity 60, wind speed 3, solar 200
ScenarioFields ==
    [temp |-> Num(2050), humidity |-> Num(6000), wind |-> Num(300),
     solar |-> Num(20000)]

ScenarioEntry ==
    [date |-> <<"0", "1", "/", "0", "1">>, temp |-> Num(2050),
     humidity |-> Num(6000), wind |-> Num(300), solar |-> Num(20000)]

(* C7: with a null secondary payload, solar of every kept date is the      *)
(* ALLSKY_SFC_SW_DWN sample of that date rounded to one decimal, unscaled, *)
(* or null for -999; in the spec's scenario the series is the single entry *)
(* of 20240101 (20.5, 60, 3, 200) and current equals it.                   *)
C7_FallbackUnscaled ==
    (Stored /\ radiations.isNull) =>
        /\ \A k \in DOMAIN data.chart :
               Derived(data.chart[k].solar,
                       Raw("ALLSKY_SFC_SW_DWN", KeyOf(data.chart[k])))
        /\ parameters = ScenarioBody =>
               (data.chart = <<ScenarioEntry>> /\ data.current = ScenarioFields)

C7_Witness ==
    /\ Stored
    /\ radiations.isNull
    /\ parameters = ScenarioBody
    /\ data.chart = <<ScenarioEntry>>

\* { error: true }, a body without hourly, an hourly without the variable
Unavailable ==
    /\ ~radiations.isNull
    /\ \/ radiations.error
       \/ ~radiations.hasHourly
       \/ ~radiations.hourly.diffuse_radiation_instant.present

(* C8: a secondary payload that is { error: true } (with or without        *)
(* hourly), that lacks hourly, or whose hourly lacks                       *)
(* diffuse_radiation_instant gives the outcome a null secondary payload    *)
(* gives for the same primary payload: the same snapshot, or the same      *)
(* failure.                                                                *)
C8_UnavailableAsNull ==
    Unavailable =>
        /\ Stored =>
               /\ ~ThenResult(parameters, NullRadiations, utcOffset).thrown
               /\ data = ThenResult(parameters, NullRadiations, utcOffset).value
        /\ \A i \in DOMAIN cycles :
               cycles[i].pc = "thrown" =>
                   /\ ThenResult(parameters, NullRadiations, utcOffset).thrown
                   /\ cycles[i].message =
                          ThenResult(parameters, NullRadiations, utcOffset).message

C8_Witness ==
    /\ Stored
    /\ radiations.error
    /\ radiations.hasHourly
    /\ radiations.hourly.diffuse_radiation_instant.present
    /\ \E k \in DOMAIN data.chart : data.chart[k].solar = Num(20000)

\* hourly.time and hourly.diffuse_radiation_instant are present
Usable ==
    /\ ~radiations.isNull
    /\ ~radiations.error
    /\ radiations.hasHourly
    /\ radiations.hourly.time.present
    /\ radiations.hourly.diffuse_radiation_instant.present

\* YYYY-MM-DD of the calendar day a date key names
IsoOfKey(key) ==
    <<key[1], key[2], key[3], key[4], "-", key[5], key[6], "-", key[7], key[8]>>

\* the indices of the hourly timestamps stamped with the day of a date key
StampedIndices(key) ==
    {i \in DOMAIN radiations.hourly.time.entries :
        /\ Len(radiations.hourly.time.entries[i]) >= 10
        /\ SubSeq(radiations.hourly.time.entries[i], 1, 10) = IsoOfKey(key)}

\* the sample at an index of hourly.diffuse_radiation_instant
SampleAt(i) ==
    IF i \in DOMAIN radiations.hourly.diffuse_radiation_instant.entries
    THEN radiations.hourly.diffuse_radiation_instant.entries[i]
    ELSE Undefined

\* those of the day's indices whose sample is a number
NumberIndices(key) == {i \in StampedIndices(key) : IsNum(SampleAt(i))}

RECURSIVE SumAt(_)
SumAt(indices) ==
    IF indices = {} THEN 0
    ELSE LET i == CHOOSE j \in indices : TRUE
         IN  SampleAt(i).v + SumAt(indices \ {i})

\* r is 100 * (sum / count) / 1000 rounded to one decimal place; r and sum
\* are in hundredths
IsPercentOfMean(r, sum, count) ==
    /\ r % 10 = 0
    /\ 2 * Abs(10 * count * r - sum) <= 100 * count
    /\ (2 * Abs(10 * count * r - sum) = 100 * count
            => Abs(10 * count * r) > Abs(sum))

(* C9: with a usable secondary payload, solar of a kept date is the mean   *)
(* of the diffuse_radiation_instant samples at exactly the indices whose   *)
(* timestamp starts with that date, divided by 1000, times 100, rounded to *)
(* one decimal (100 and 300 on 2024-01-01 give 20.0 for 20240101); the     *)
(* primary payload's ALLSKY_SFC_SW_DWN has no part in it.                  *)
C9_DailyMeanPercent ==
    (Stored /\ Usable) =>
        /\ \A k \in DOMAIN data.chart :
               (/\ StampedIndices(KeyOf(data.chart[k])) # {}
                /\ NumberIndices(KeyOf(data.chart[k]))
                       = StampedIndices(KeyOf(data.chart[k])))
               => /\ IsNum(data.chart[k].solar)
                  /\ IsPercentOfMean(data.chart[k].solar.v,
                         SumAt(StampedIndices(KeyOf(data.chart[k]))),
                         Cardinality(StampedIndices(KeyOf(data.chart[k]))))
        /\ radiations = ScenarioRadiations =>
               \A k \in DOMAIN data.chart :
                   KeyOf(data.chart[k]) = DateKey(3)
                       => data.chart[k].solar = Num(2000)

(* C10: on the hourly path null, undefined and NaN samples count neither   *)
(* in the sum nor in the count of the daily average; a kept date with no   *)
(* timestamp of its day, or whose samples of the day are all               *)
(* null/undefined/NaN, has solar null (not the ALLSKY value) and keeps its *)
(* entry in the series.                                                    *)
C10_InvalidSamplesDiscarded ==
    (Stored /\ Usable) =>
        /\ \A k \in DOMAIN data.chart :
               IF NumberIndices(KeyOf(data.chart[k])) = {}
               THEN data.chart[k].solar = Null
               ELSE /\ IsNum(data.chart[k].solar)
                    /\ IsPercentOfMean(data.chart[k].solar.v,
                           SumAt(NumberIndices(KeyOf(data.chart[k]))),
                           Cardinality(NumberIndices(KeyOf(data.chart[k]))))
        /\ \A key \in KeptKeys :
               \E k \in DOMAIN data.chart : data.chart[k].date = Label(key)

(* C11: on the hourly path, for every date key YYYYMMDD and every host     *)
(* timezone the string matched against the timestamps' prefix is           *)
(* YYYY-MM-DD of that same calendar day, so a day's solar value comes from *)
(* the samples stamped with that day: it is null exactly when no sample    *)
(* stamped with the day is a number.                                       *)
C11_TargetDateIsKeyDay ==
    (Stored /\ Usable) =>
        \A k \in DOMAIN data.chart :
            /\ formatDateWithoutHyphen(DateObj(KeyOf(data.chart[k])), utcOffset)
                   = IsoOfKey(KeyOf(data.chart[k]))
            /\ (data.chart[k].solar = Null)
                   <=> (NumberIndices(KeyOf(data.chart[k])) = {})

(* C12: in a stored snapshot latestDate is the YYYYMMDD key of the last,   *)
(* that is the chronologically latest, of the at most 7 kept valid dates.  *)
C12_LatestDateIsLastKept ==
    Stored =>
        /\ data.latestDate \in KeptKeys
        /\ Later(data.latestDate, ValidKeys) = {}

C12_Witness ==
    /\ Stored
    /\ Cardinality(ValidKeys) = 7
    /\ parameters.parameter.T2M.entries[1][1] = DateKey(WindowDays)
    /\ Raw("T2M", DateKey(WindowDays)) = Num(Sentinel)
    /\ data.latestDate = DateKey(WindowDays - 1)

IsDigits(t) == \A i \in DOMAIN t : \E k \in DOMAIN DigitChar : DigitChar[k] = t[i]

(* C13: formatDisplayDate maps every 8-digit key YYYYMMDD to DD/MM/YYYY    *)
(* (20240115 to 15/01/2024) and returns N/A for every other argument: a    *)
(* wrong length, 8 characters that are not all digits, empty, null,        *)
(* undefined.                                                              *)
C13_DisplayDateOrNA ==
    (call.fn = "formatDisplayDate" /\ returned # NotReturned) =>
        IF call.arg.t = "string" /\ Len(call.arg.v) = 8 /\ IsDigits(call.arg.v)
        THEN returned = <<call.arg.v[7], call.arg.v[8], "/",
                          call.arg.v[5], call.arg.v[6], "/",
                          call.arg.v[1], call.arg.v[2], call.arg.v[3],
                          call.arg.v[4]>>
        ELSE returned = <<"N", "/", "A">>

(* C14: normalization fails only when properties.parameter is absent or   *)
(* there is no valid date.  With properties.parameter, a T2M entry that is *)
(* not -999 and a secondary payload that is null, an error body or an      *)
(* object with hourly, the then-callback does not throw and the cycle does *)
(* not end in the error state, also when a kept date has no entry in       *)
(* RH2M, WS10M or ALLSKY_SFC_SW_DWN, when one of these maps is absent, and *)
(* when hourly has the target variable but no time sequence.               *)
C14_OnlyTwoFailures ==
    (/\ WellFormed
     /\ ValidKeys # {}
     /\ (radiations.isNull \/ radiations.error \/ radiations.hasHourly))
    => /\ \A i \in DOMAIN cycles : cycles[i].pc # "thrown"
       /\ settled # "catch after throw"

(* C15: a failure of Request B never fails the cycle: a response that is  *)
(* not a success gives null and fetchNASAData still resolves, and a        *)
(* network failure of Request B or an unparsable body of a successful      *)
(* Request B is absorbed too, so no cycle is rejected, and none ends in    *)
(* the catch callback, because of Request B.                               *)
C15_RequestBFailureAbsorbed ==
    /\ \A i \in DOMAIN cycles :
           cycles[i].pc = "rejected"
               => cycles[i].cause \in {RequestANetwork, RequestABody}
    /\ settled \notin {RequestBNetwork, RequestBBody}

(* C16: when Request A's network call or the parsing of its body fails,    *)
(* fetchNASAData rejects with that failure and the cycle ends in the catch *)
(* callback without normalization: the step that settles the cycle leaves  *)
(* the stored snapshot as it was, sets error to the failure's message and  *)
(* loading to false.                                                       *)
C16_RequestAFailureRejects ==
    [][\A i \in DOMAIN cycles :
           (/\ cycles[i].pc = "rejected"
            /\ cycles[i].cause \in {RequestANetwork, RequestABody}
            /\ cycles' = Remove(cycles, i))
           => /\ data' = data
              /\ error' = cycles[i].message
              /\ error' \in {NetworkErrorMessage, SyntaxErrorMessage}
              /\ loading' = FALSE]_vars

C16_Witness ==
    /\ settled = RequestANetwork
    /\ error = NetworkErrorMessage
    /\ ~loading
    /\ ~Stored
    /\ cycles = <<>>
    /\ started = 1

(* C17: within one invocation of fetchNASAData, Request B is sent without  *)
(* waiting for Request A's response: while Request A is in flight Request  *)
(* B has been sent too, and a failure of Request A does not keep Request B *)
(* from being sent.                                                        *)
C17_RequestsConcurrent ==
    \A i \in DOMAIN cycles :
        /\ cycles[i].pc = "requestA" => cycles[i].calls = 2
        /\ cycles[i].cause = RequestANetwork => cycles[i].calls = 2

(* C18: every invocation of fetchNASAData makes exactly two outbound       *)
(* calls whatever the outcome of either: never more than two, two once its *)
(* promise has settled; and no fetch is started that a marker click did    *)
(* not ask for.                                                            *)
C18_TwoCallsPerInvocation ==
    /\ \A i \in DOMAIN cycles :
           /\ cycles[i].calls <= 2
           /\ cycles[i].pc \in {"pending", "thrown", "rejected"}
                  => cycles[i].calls = 2
    /\ started <= clicks

(***************************************************************************)
(* C19: for every day of a call, fetchNASAData asks for the days from ten  *)
(* days before today to three days before today, so that the end day is    *)
(* exactly seven days after the start day, and both requests carry the     *)
(* same two days, Request A as YYYYMMDD and Request B as YYYY-MM-DD.       *)
(* Today is read as the day of the call on the host's clock or as its day  *)
(* in UTC, whichever fits.                                                 *)
(***************************************************************************)
DayKey(d) == Pad4(d.year) \o Pad2(d.month) \o Pad2(d.day)

WindowOfToday(today) ==
    /\ returned[2] = DayKey(setDateBack(today, 3))
    /\ returned[1] = DayKey(setDateBack(today, 10))
    /\ returned[4] = IsoOfKey(returned[2])
    /\ returned[3] = IsoOfKey(returned[1])

UtcDay(now, zone) ==
    IF now.minute - OffsetAt(zone, now) < 0 THEN PrevDay(now)
    ELSE IF now.minute - OffsetAt(zone, now) >= 24 * 60 THEN NextDay(now)
    ELSE now

C19_WindowIsTodayMinus10To3 ==
    (call.fn = "fetchNASAData" /\ returned # NotReturned) =>
        \/ WindowOfToday(call.arg.now)
        \/ WindowOfToday(UtcDay(call.arg.now, call.arg.zone))

\* the two requests carry the same days whatever the zone
C19_SameDaysInBothFormats ==
    (call.fn = "fetchNASAData" /\ returned # NotReturned) =>
        /\ returned[4] = IsoOfKey(returned[2])
        /\ returned[3] = IsoOfKey(returned[1])

\* on a host whose clocks do not change the window is ten to three days
\* before the UTC day of the call
C19_FixedZoneWindow ==
    (/\ call.fn = "fetchNASAData"
     /\ returned # NotReturned
     /\ call.arg.zone.before = call.arg.zone.after) =>
        WindowOfToday(UtcDay(call.arg.now, call.arg.zone))

(***************************************************************************)
(* C20: every click on a location marker, a click on the marker of the     *)
(* location already selected included, starts a new fetch cycle: once the  *)
(* effects of the clicks have run, as many fetches were started as markers *)
(* were clicked.                                                           *)
(***************************************************************************)
C20_EveryClickFetches ==
    (selectedLocation = deps) => started = clicks

\* a click that changes the selected location does start a fetch and sets
\* loading
C20_ChangedSelectionFetches ==
    [][(/\ selectedLocation # deps
        /\ deps' = selectedLocation) =>
           /\ started' = started + 1
           /\ loading'
           /\ Len(cycles') = Len(cycles) + 1
           /\ cycles'[Len(cycles')].location = selectedLocation
           /\ cycles'[Len(cycles')].pc = "requestA"]_vars

(***************************************************************************)
(* C21: selecting a second location while the fetch of the first is        *)
(* unresolved does not cancel the first cycle: a click and the effect that *)
(* follows it leave every unresolved cycle as it is, and the then-callback *)
(* of any cycle, the newest or not, stores the snapshot of its own         *)
(* location.  So the first location's data can be shown while the second   *)
(* location is the selected one (the witness).                             *)
(***************************************************************************)
SnapshotOf(location) ==
    ThenResult(answers[location][1], answers[location][2], utcOffset)

IsPrefix(s, t) == Len(s) <= Len(t) /\ SubSeq(t, 1, Len(s)) = s

C21_EarlierCycleNotCancelled ==
    [][/\ (selectedLocation' # selectedLocation \/ deps' # deps)
           => IsPrefix(cycles, cycles')
       /\ \A i \in DOMAIN cycles :
              (/\ cycles[i].pc = "pending"
               /\ Len(cycles') < Len(cycles)
               /\ \A j \in DOMAIN cycles' : cycles'[j].id # cycles[i].id)
                  => data' = SnapshotOf(cycles[i].location).value]_vars

\* both cycles succeeded, the first one last: Tokyo is selected and Lima's
\* snapshot is shown
C21_Witness ==
    /\ started = 2
    /\ cycles = <<>>
    /\ selectedLocation = "Tokyo, Japan"
    /\ error = NoError
    /\ DashboardView.view = "metrics"
    /\ DashboardView.shown = SnapshotOf("Lima, Peru").value
    /\ ~SnapshotOf("Tokyo, Japan").thrown
    /\ DashboardView.shown # SnapshotOf("Tokyo, Japan").value

(***************************************************************************)
(* C22: with overlapping cycles, once all of them have settled the         *)
(* dashboard shows the outcome of the cycle whose callback ran last: the   *)
(* metrics of the stored snapshot if it was a then-callback that           *)
(* succeeded, the error view if it was the catch-callback, whatever the    *)
(* callbacks before it did.                                                *)
(***************************************************************************)
C22_LastCallbackDecides ==
    (cycles = <<>> /\ started > 0 /\ selectedLocation = deps) =>
        IF settled = "then"
        THEN DashboardView.view = "metrics"
        ELSE DashboardView.view = "error"

\* a callback that succeeds stores its snapshot and one that fails its
\* message, whatever ran before
C22_LastCallbackStores ==
    [][\A i \in DOMAIN cycles :
          (/\ Len(cycles') < Len(cycles)
           /\ \A j \in DOMAIN cycles' : cycles'[j].id # cycles[i].id)
              => IF cycles[i].pc = "pending"
                 THEN /\ data' = SnapshotOf(cycles[i].location).value
                      /\ error' = error
                 ELSE /\ error' = cycles[i].message
                      /\ data' = data]_vars

(***************************************************************************)
(* C23: whenever a location is selected, error is set and loading is       *)
(* false, the dashboard renders the error view with the message and none   *)
(* of the stored snapshot, also when a snapshot of an earlier cycle is     *)
(* stored; and the catch-callback of a failed cycle leaves the stored      *)
(* snapshot as it is.                                                      *)
(***************************************************************************)
ErrorState == selectedLocation # NoLocation /\ error # NoError /\ ~loading

C23_ErrorViewOnly ==
    [][/\ ErrorState' =>
              DashboardView' =
                  [view |-> "error", message |-> error', shown |-> NullData]
       /\ \A i \in DOMAIN cycles :
              (/\ cycles[i].pc \in {"thrown", "rejected"}
               /\ Len(cycles') < Len(cycles)
               /\ \A j \in DOMAIN cycles' : cycles'[j].id # cycles[i].id)
                  => data' = data]_vars

\* a cycle failed after an earlier one had stored a snapshot
C23_Witness ==
    /\ ErrorState
    /\ Stored
    /\ cycles = <<>>
    /\ settled \notin {"none", "then"}
    /\ DashboardView.view = "error"

(***************************************************************************)
(* C24: a then-callback that succeeds replaces the whole stored snapshot:  *)
(* current, chart and latestDate after it are those computed from the two  *)
(* results of its own cycle, whatever snapshot was stored before, so two   *)
(* runs that differ in the stored snapshot and get the same results end    *)
(* with the same snapshot.                                                 *)
(***************************************************************************)
C24_SnapshotFromPayloadsOnly ==
    [][\A i \in DOMAIN cycles :
          (/\ cycles[i].pc = "pending"
           /\ Len(cycles') < Len(cycles)
           /\ \A j \in DOMAIN cycles' : cycles'[j].id # cycles[i].id)
              => /\ data'.current = SnapshotOf(cycles[i].location).value.current
                 /\ data'.chart = SnapshotOf(cycles[i].location).value.chart
                 /\ data'.latestDate =
                        SnapshotOf(cycles[i].location).value.latestDate
                 /\ ~data'.isNull]_vars

\* both cycles succeeded and no callback failed since Tokyo was selected:
\* Tokyo's snapshot was stored, then Lima's, which differs from it in the
\* chart and in latestDate, and nothing of Tokyo's is left
C24_Witness ==
    /\ started = 2
    /\ cycles = <<>>
    /\ deps = "Tokyo, Japan"
    /\ error = NoError
    /\ settled = "then"
    /\ ~SnapshotOf("Tokyo, Japan").thrown
    /\ SnapshotOf("Tokyo, Japan").value.latestDate # data.latestDate
    /\ SnapshotOf("Tokyo, Japan").value.chart # data.chart
    /\ data = SnapshotOf("Lima, Peru").value

(***************************************************************************)
(* C25: in a stored snapshot the filter on a null temperature has removed  *)
(* no entry: the series has one entry for each kept date, its last entry   *)
(* is the entry of the day latestDate names, and so latestDate never names *)
(* a day absent from the series.                                           *)
(***************************************************************************)
C25_FilterRemovesNothing ==
    Stored =>
        /\ Len(data.chart) = Cardinality(KeptKeys)
        /\ Len(data.chart) > 0
        /\ data.chart[Len(data.chart)].date = Label(data.latestDate)
        /\ KeyOf(data.chart[Len(data.chart)]) = data.latestDate

\* the latest day of the payload has no temperature and a kept day has no
\* humidity: the series ends with the day before, which latestDate names
C25_Witness ==
    /\ Stored
    /\ \E key \in SentinelKeys : Later(key, ValidKeys) = {}
    /\ \E k \in DOMAIN data.chart : data.chart[k].humidity = Null
    /\ Len(data.chart) = Cardinality(KeptKeys)
    /\ data.chart[Len(data.chart)].date = Label(data.latestDate)

(***************************************************************************)
(* C26: in every reachable state, if a location is selected, loading is    *)
(* false and error is null, then a snapshot is stored: the metrics are     *)
(* never rendered from a null snapshot.                                    *)
(***************************************************************************)
C26_MetricsHaveSnapshot ==
    /\ (selectedLocation # NoLocation /\ ~loading /\ error = NoError)
           => Stored
    /\ DashboardView.view = "metrics" => ~DashboardView.shown.isNull

\* the first location's results make the then-callback throw, the other
\* location is selected after two clicks and its cycle succeeded last: the
\* metrics are rendered from its snapshot
C26_Witness ==
    /\ started = 2
    /\ clicks = 2
    /\ cycles = <<>>
    /\ settled = "then"
    /\ DashboardView.view = "metrics"
    /\ SnapshotOf(FirstLocation).thrown
    /\ selectedLocation # FirstLocation
    /\ data = SnapshotOf(selectedLocation).value

(***************************************************************************)
(* C27: while the fetch started for the selected location is unresolved,   *)
(* loading is true and the dashboard shows the loading view, neither data  *)
(* nor an error of another cycle, whatever earlier cycles complete.        *)
(***************************************************************************)
CurrentUnresolved ==
    /\ selectedLocation # NoLocation
    /\ selectedLocation = deps
    /\ \E i \in DOMAIN cycles : cycles[i].id = started

C27_LoadingWhileUnresolved ==
    CurrentUnresolved => loading /\ DashboardView.view = "loading"

\* with one cycle at a time the loading view stays until the cycle settles
C27_LoadingWithoutOverlap ==
    (CurrentUnresolved /\ Len(cycles) = 1 /\ settled = "none") => loading

(***************************************************************************)
(* C28: when every request sent settles, every change of the selected      *)
(* location is followed, sooner or later, by a state in which the cycle    *)
(* started for it has settled, loading is false and either the snapshot of *)
(* that cycle is stored or an error message is set: the step that ends a   *)
(* cycle leaves such a state, and from every state with a change not yet   *)
(* taken up or a cycle unresolved a state is reached in which every cycle  *)
(* has ended and the dashboard is not loading.                             *)
(***************************************************************************)
CycleSettled(k, location) ==
    /\ started >= k
    /\ \A i \in DOMAIN cycles : cycles[i].id # k
    /\ ~loading
    /\ \/ Stored /\ data = SnapshotOf(location).value
       \/ error # NoError

Unsettled == selectedLocation # deps \/ cycles # <<>>

C28_EveryChangeSettles ==
    /\ [][\A i \in DOMAIN cycles :
             (\A j \in DOMAIN cycles' : cycles'[j].id # cycles[i].id)
                 => /\ ~loading'
                    /\ \/ data' = SnapshotOf(cycles[i].location).value
                       \/ error' # NoError]_vars
    /\ Unsettled ~> (~Unsettled /\ ~loading /\ (Stored \/ error # NoError))

\* the second location's cycle has failed on Request B and the dashboard
\* has left the loading view
C28_Witness ==
    /\ clicks = 2
    /\ started = 2
    /\ CycleSettled(1, FirstLocation)
    /\ CycleSettled(2, selectedLocation)
    /\ selectedLocation # FirstLocation
    /\ settled = RequestBNetwork

(***************************************************************************)
(* C29: the effect of every change of the selected location sets error to  *)
(* null and loading to true as it starts the new fetch, and afterwards     *)
(* error is set only by a catch-callback that runs after that; so an error *)
(* of a cycle that settled before the change is not displayed after it,    *)
(* and the error state is left by selecting another location, without a    *)
(* reload of the page.                                                     *)
(***************************************************************************)
C29_ChangeClearsError ==
    [][/\ deps' # deps =>
              /\ error' = NoError
              /\ loading'
              /\ started' = started + 1
              /\ cycles'[Len(cycles')].pc = "requestA"
              /\ DashboardView'.view = "loading"
       /\ (error' # error /\ error' # NoError) =>
              \E i \in DOMAIN cycles :
                  /\ cycles[i].pc \in {"thrown", "rejected"}
                  /\ \A j \in DOMAIN cycles' : cycles'[j].id # cycles[i].id
                  /\ error' = cycles[i].message]_vars

\* the first cycle failed with nothing stored and has ended; another
\* location was selected and its fetch started: the error is gone
C29_Witness ==
    /\ clicks = 2
    /\ started = 2
    /\ Len(cycles) = 1
    /\ cycles[1].id = 2
    /\ ~Stored
    /\ error = NoError
    /\ loading
    /\ settled = "none"
    /\ deps # FirstLocation

(***************************************************************************)
(* C30: after any sequence of touch start, move and end events, dragOffset *)
(* is 0 whenever no drag is in progress; a touch move received while not   *)
(* dragging changes nothing, and one received while dragging sets          *)
(* dragOffset to the start position minus the position of the touch; a     *)
(* touch end shows the dashboard if the offset is greater than 50, hides   *)
(* it if the offset is less than -50 and leaves it as it is otherwise.     *)
(***************************************************************************)
C30_DragGesture ==
    /\ [](~isDragging => dragOffset = 0)
    /\ [][/\ (call'.fn = "handleTouchMove" /\ ~isDragging) =>
                 UNCHANGED <<dragStartY, dragOffset, isDragging, showDashboard>>
          /\ (call'.fn = "handleTouchMove" /\ isDragging) =>
                 /\ dragOffset' = dragStartY - call'.arg.v
                 /\ UNCHANGED <<dragStartY, isDragging, showDashboard>>
          /\ call'.fn = "handleTouchEnd" =>
                 /\ dragOffset > 50 => showDashboard'
                 /\ dragOffset < 0 - 50 => ~showDashboard'
                 /\ (dragOffset <= 50 /\ dragOffset >= 0 - 50) =>
                        showDashboard' = showDashboard
                 /\ ~isDragging'
                 /\ dragOffset' = 0]_vars

\* a touch that started at 101 has ended and the dashboard is shown, which
\* here only a touch end at an offset greater than 50 does
C30_Witness ==
    /\ call.fn = "handleTouchEnd"
    /\ showDashboard
    /\ selectedLocation = NoLocation
    /\ ~isDragging
    /\ dragOffset = 0
    /\ dragStartY = 101

=============================================================================
